---- MODULE Spec2Model ----
(***************************************************************************)
(* Model of blackglass-sentinel (src/sentinel.py): the MCP tools           *)
(* assess_human_cost, active_ui_interdiction and execute_defense_protocol. *)
(* Each tool is one handler a client may invoke with any arguments; the    *)
(* state records the last invocation: its arguments, the branch it took,   *)
(* the dispatcher calls and OS commands it made, and how it ended          *)
(* (a returned string, or an exception propagating out of the tool).       *)
(*                                                                         *)
(* latency_ms is a Python float.  It is modelled as a record with a kind   *)
(* (finite / nan / posinf / neginf) and, for finite values, a fixed-point  *)
(* magnitude in units of 1/UnitsPerMs milliseconds.                        *)
(* A returned f-string is a sequence of its pieces.                        *)
(***************************************************************************)
EXTENDS Integers, Sequences, FiniteSets, TLC

VARIABLES clock_hour, tool, latency_ms, human_status, interdiction_type,
          current_hour, protocol, dispatched, os_log, raised, ret

vars == <<clock_hour, tool, latency_ms, human_status, interdiction_type,
          current_hour, protocol, dispatched, os_log, raised, ret>>

----------------------------------------------------------------------------
(* Program constants *)

THRESHOLD_MS == 500
REST_START == 23
REST_END == 7
HoursPerDay == 24

(* Bounds of the model *)

UnitsPerMs == 10000
MaxDelta == 2

----------------------------------------------------------------------------
(* Input domains *)

Finite(n) == [kind |-> "finite", v |-> n]
NaN == [kind |-> "nan", v |-> 0]
PosInf == [kind |-> "posinf", v |-> 0]
NegInf == [kind |-> "neginf", v |-> 0]
NoLatency == [kind |-> "none", v |-> 0]

Threshold == THRESHOLD_MS * UnitsPerMs

Latencies ==
    { Finite(Threshold + d) : d \in (0 - MaxDelta)..MaxDelta }
    \cup { Finite(0 - 5 * UnitsPerMs), Finite(0 - ((8452 * UnitsPerMs) \div 10)),
           Finite(0), Finite(120 * UnitsPerMs),
           Finite((8452 * UnitsPerMs) \div 10) }
    \cup { NaN, PosInf, NegInf }

InterdictionActions == {"NOTIFY_RESPONDER", "CLOSE_STRESS_APPS", "LOCK_WORKSTATION"}
InterdictionTypes == InterdictionActions \cup {"REBOOT"}

AvailabilityStatus == {"AVAILABLE", "FATIGUE_RISK"}
HumanStatuses == AvailabilityStatus \cup {"fatigue_risk", "UNKNOWN"}

Hours == 0..(HoursPerDay - 1)
NoHour == 0 - 1

----------------------------------------------------------------------------
(* Python float comparison  a > n  and  a <= n  against a finite bound.    *)
(* Every comparison with NaN is False.                                      *)

FloatGT(a, n) == \/ a.kind = "finite" /\ a.v > n
                 \/ a.kind = "posinf"

FloatLE(a, n) == \/ a.kind = "finite" /\ a.v <= n
                 \/ a.kind = "neginf"

FloatLT(a, n) == \/ a.kind = "finite" /\ a.v < n
                 \/ a.kind = "neginf"

----------------------------------------------------------------------------
(* Returned strings *)

MSG_FATIGUE == "FATIGUE_RISK"
MSG_AVAILABLE == "AVAILABLE"
MSG_CLOSE_OK == "INTERDICTION SUCCESS: Stress-inducing applications terminated. Sensory load reduced."
MSG_LOCK_OK == "INTERDICTION SUCCESS: Workstation locked. Rest protocol enforced."
MSG_LOCK_FAILED == "INTERDICTION FAILED: Could not lock workstation. Error: "
MSG_NOTIFY_OK == "INTERDICTION SUCCESS: Fatigue notification delivered to responder UI."
MSG_UNKNOWN == "UNKNOWN INTERDICTION TYPE: "
MSG_MERCY == "MERCY PROTOCOL ACTIVATED: Latency breach during high fatigue risk. Auto-Rollback triggered. DO NOT PAGE ENGINEERS. "
MSG_PAGE == "PAGING PROTOCOL: Latency breach detected. Engineering responders are AVAILABLE. Paging now."
MSG_WATCH == "WATCH PROTOCOL: System status within acceptable deviation. Monitoring entropy vectors."
ERR_SPAWN == "FileNotFoundError"

----------------------------------------------------------------------------
(* assess_human_cost: the rest-window test on the hour read from the clock *)

InRestWindow_EndInclusive(h) == REST_START <= h \/ h <= REST_END

InRestWindow(h) == REST_START <= h \/ h < REST_END

assess_human_cost(h) == IF InRestWindow(h) THEN MSG_FATIGUE ELSE MSG_AVAILABLE

----------------------------------------------------------------------------
(* active_ui_interdiction(interdiction_type); os_ok is whether the OS can  *)
(* start the command the branch runs (subprocess raises when it cannot).   *)
(* Result: what the call returned, whether an exception left the call,     *)
(* and the OS commands it tried to start.                                  *)

active_ui_interdiction(itype, os_ok) ==
    IF itype = "CLOSE_STRESS_APPS" THEN
        [ret |-> <<MSG_CLOSE_OK>>, raised |-> FALSE, os_log |-> <<>>]
    ELSE IF itype = "LOCK_WORKSTATION" THEN
        [ret |-> IF os_ok THEN <<MSG_LOCK_OK>> ELSE <<MSG_LOCK_FAILED, ERR_SPAWN>>,
         raised |-> FALSE,
         os_log |-> << [cmd |-> "rundll32.exe", started |-> os_ok] >>]
    ELSE IF itype = "NOTIFY_RESPONDER" THEN
        [ret |-> IF os_ok THEN <<MSG_NOTIFY_OK>> ELSE <<>>,
         raised |-> ~os_ok,
         os_log |-> << [cmd |-> "powershell", started |-> os_ok] >>]
    ELSE
        [ret |-> <<MSG_UNKNOWN, itype>>, raised |-> FALSE, os_log |-> <<>>]

----------------------------------------------------------------------------
(* execute_defense_protocol(latency_ms, human_status)                       *)

Breach_Inclusive(latency) == FloatGT(latency, Threshold - 1)

Breach_OffByOneMs(latency) == FloatGT(latency, Threshold + UnitsPerMs)

Breach_Inverted(latency) == FloatLT(latency, Threshold)

Breach(latency) == FloatGT(latency, Threshold)

WatchResult ==
    [protocol |-> "WATCH", dispatched |-> <<>>, os_log |-> <<>>,
     raised |-> FALSE, ret |-> <<MSG_WATCH>>]

PageResult_Missing == WatchResult

PageResult_Notifies ==
    LET r == active_ui_interdiction("NOTIFY_RESPONDER", TRUE)
    IN  [protocol |-> "PAGE", dispatched |-> <<"NOTIFY_RESPONDER">>,
         os_log |-> r.os_log, raised |-> FALSE, ret |-> <<MSG_PAGE>>]

PageResult ==
    [protocol |-> "PAGE", dispatched |-> <<>>, os_log |-> <<>>,
     raised |-> FALSE, ret |-> <<MSG_PAGE>>]

MercyResult_DoubleDispatch(os_ok) ==
    LET r1 == active_ui_interdiction("NOTIFY_RESPONDER", os_ok)
        r2 == active_ui_interdiction("NOTIFY_RESPONDER", os_ok)
    IN  [protocol |-> "MERCY",
         dispatched |-> <<"NOTIFY_RESPONDER", "NOTIFY_RESPONDER">>,
         os_log |-> IF r1.raised THEN r1.os_log ELSE r1.os_log \o r2.os_log,
         raised |-> r1.raised \/ r2.raised,
         ret |-> IF r1.raised \/ r2.raised THEN <<>> ELSE <<MSG_MERCY>> \o r2.ret]

(* line 117 calls the dispatcher once; an exception it raises is not caught
   here, so it leaves execute_defense_protocol and nothing is returned *)
MercyResult(os_ok) ==
    LET r == active_ui_interdiction("NOTIFY_RESPONDER", os_ok)
    IN  [protocol |-> "MERCY", dispatched |-> <<"NOTIFY_RESPONDER">>,
         os_log |-> r.os_log, raised |-> r.raised,
         ret |-> IF r.raised THEN <<>> ELSE <<MSG_MERCY>> \o r.ret]

execute_defense_protocol_ElseBranch(latency, status, os_ok) ==
    IF Breach(latency) THEN
        IF status = "FATIGUE_RISK" THEN MercyResult(os_ok)
        ELSE PageResult
    ELSE WatchResult

execute_defense_protocol(latency, status, os_ok) ==
    IF Breach(latency) THEN
        IF status = "FATIGUE_RISK" THEN MercyResult(os_ok)
        ELSE IF status = "AVAILABLE" THEN PageResult
        ELSE WatchResult
    ELSE WatchResult

(* The protocol label a caller recovers from a returned status line *)
ProtocolLabel(r) ==
    IF r = <<>> THEN "NONE"
    ELSE IF Head(r) = MSG_MERCY THEN "MERCY"
    ELSE IF Head(r) = MSG_PAGE THEN "PAGE"
    ELSE IF Head(r) = MSG_WATCH THEN "WATCH"
    ELSE "NONE"

----------------------------------------------------------------------------
Init ==
    /\ clock_hour \in Hours
    /\ tool = "none"
    /\ latency_ms = NoLatency
    /\ human_status = ""
    /\ interdiction_type = ""
    /\ current_hour = NoHour
    /\ protocol = "NONE"
    /\ dispatched = <<>>
    /\ os_log = <<>>
    /\ raised = FALSE
    /\ ret = <<>>

(* The wall clock in America/Denver moves on *)
ClockAdvance ==
    /\ clock_hour' = (clock_hour + 1) % HoursPerDay
    /\ UNCHANGED <<tool, latency_ms, human_status, interdiction_type,
                   current_hour, protocol, dispatched, os_log, raised, ret>>

AssessHumanCost ==
    /\ tool' = "assess_human_cost"
    /\ current_hour' = clock_hour
    /\ ret' = << assess_human_cost(clock_hour) >>
    /\ raised' = FALSE
    /\ latency_ms' = NoLatency
    /\ human_status' = ""
    /\ interdiction_type' = ""
    /\ protocol' = "NONE"
    /\ dispatched' = <<>>
    /\ os_log' = <<>>
    /\ UNCHANGED clock_hour

ActiveUiInterdiction ==
    \E itype \in InterdictionTypes, os_ok \in BOOLEAN :
        LET r == active_ui_interdiction(itype, os_ok)
        IN  /\ tool' = "active_ui_interdiction"
            /\ interdiction_type' = itype
            /\ ret' = r.ret
            /\ raised' = r.raised
            /\ os_log' = r.os_log
            /\ dispatched' = <<itype>>
            /\ latency_ms' = NoLatency
            /\ human_status' = ""
            /\ protocol' = "NONE"
            /\ current_hour' = NoHour
            /\ UNCHANGED clock_hour

ExecuteDefenseProtocol ==
    \E latency \in Latencies, status \in HumanStatuses, os_ok \in BOOLEAN :
        LET r == execute_defense_protocol(latency, status, os_ok)
        IN  /\ tool' = "execute_defense_protocol"
            /\ latency_ms' = latency
            /\ human_status' = status
            /\ protocol' = r.protocol
            /\ dispatched' = r.dispatched
            /\ os_log' = r.os_log
            /\ raised' = r.raised
            /\ ret' = r.ret
            /\ interdiction_type' = ""
            /\ current_hour' = NoHour
            /\ UNCHANGED clock_hour

Next ==
    \/ ClockAdvance
    \/ AssessHumanCost
    \/ ActiveUiInterdiction
    \/ ExecuteDefenseProtocol

Spec == Init /\ [][Next]_vars

----------------------------------------------------------------------------
(* Properties *)

EDP == tool = "execute_defense_protocol"

NotifyCount == Cardinality({i \in DOMAIN dispatched : dispatched[i] = "NOTIFY_RESPONDER"})

SpawnFailed == \E i \in DOMAIN os_log : ~os_log[i].started

ReportsFailure(r) == r # <<>> /\ Head(r) = MSG_LOCK_FAILED

(* C1: a cycle with latency_ms > 500 (500.0001 included) and human_status
   FATIGUE_RISK takes the MERCY branch, and whatever it returns carries the
   MERCY label. *)
C1_MercyOnBreachFatigue ==
    (EDP /\ FloatGT(latency_ms, Threshold) /\ human_status = "FATIGUE_RISK")
        => /\ protocol = "MERCY"
           /\ (~raised => ProtocolLabel(ret) = "MERCY")

C1_Witness ==
    /\ EDP /\ latency_ms = Finite(Threshold + 1) /\ human_status = "FATIGUE_RISK"
    /\ protocol = "MERCY" /\ ProtocolLabel(ret) = "MERCY"

(* C2: a cycle with latency_ms > 500 and human_status AVAILABLE selects PAGE. *)
C2_PageOnBreachAvailable ==
    (EDP /\ FloatGT(latency_ms, Threshold) /\ human_status = "AVAILABLE")
        => /\ protocol = "PAGE"
           /\ ~raised
           /\ ProtocolLabel(ret) = "PAGE"

C2_Witness ==
    /\ EDP /\ latency_ms = Finite(Threshold + 1) /\ human_status = "AVAILABLE"
    /\ ret = <<MSG_PAGE>>

(* C3: a cycle with latency_ms <= 500 selects WATCH whatever the status is;
   latency_ms exactly 500 is WATCH. *)
C3_WatchAtOrBelowThreshold ==
    (EDP /\ FloatLE(latency_ms, Threshold))
        => /\ protocol = "WATCH"
           /\ ~raised
           /\ ProtocolLabel(ret) = "WATCH"

C3_Witness ==
    /\ EDP /\ latency_ms = Finite(Threshold) /\ human_status = "FATIGUE_RISK"
    /\ ret = <<MSG_WATCH>>

(* C4: a cycle that selects MERCY calls the dispatcher with NOTIFY_RESPONDER
   exactly once, whether or not that dispatch succeeds. *)
C4_MercyNotifiesExactlyOnce ==
    (EDP /\ protocol = "MERCY")
        => /\ NotifyCount = 1
           /\ Len(dispatched) = 1
           /\ Len(os_log) = 1

C4_Witness ==
    /\ EDP /\ protocol = "MERCY" /\ SpawnFailed
    /\ dispatched = <<"NOTIFY_RESPONDER">>

(* C5: a cycle that selects WATCH or PAGE makes no dispatcher call and starts
   no OS command. *)
C5_NoDispatchOnWatchOrPage ==
    (EDP /\ protocol \in {"WATCH", "PAGE"})
        => /\ dispatched = <<>>
           /\ os_log = <<>>

C5_Witness ==
    /\ EDP /\ protocol = "PAGE"
    /\ latency_ms = Finite((8452 * UnitsPerMs) \div 10)
    /\ human_status = "AVAILABLE" /\ dispatched = <<>>

(* C6: when the NOTIFY_RESPONDER dispatch of a MERCY cycle fails, the cycle
   still returns, and what it returns is labelled MERCY. *)
C6_FailedNotifyStillReportsMercy ==
    (EDP /\ protocol = "MERCY" /\ SpawnFailed)
        => /\ ~raised
           /\ ProtocolLabel(ret) = "MERCY"

C8_DispatcherNeverRaises ==
    (tool = "active_ui_interdiction" /\ interdiction_type \in InterdictionActions)
        => /\ ~raised
           /\ (SpawnFailed => ReportsFailure(ret))

(* C9: assess_human_cost returns exactly one of AVAILABLE / FATIGUE_RISK for
   every hour 0..23: FATIGUE_RISK exactly for hour 23 and hours 0..6,
   AVAILABLE for hours 7..22. *)
C9_RestWindow ==
    tool = "assess_human_cost"
        => /\ current_hour \in 0..23
           /\ ~raised
           /\ ret \in {<<"AVAILABLE">>, <<"FATIGUE_RISK">>}
           /\ (ret = <<"FATIGUE_RISK">> <=> (current_hour = 23 \/ current_hour < 7))
           /\ (ret = <<"AVAILABLE">> <=> current_hour \in 7..22)

C9_Witness ==
    /\ tool = "assess_human_cost" /\ current_hour = 7 /\ ret = <<"AVAILABLE">>

(* C10: a cycle with latency_ms > 500 and a human_status that is neither
   "FATIGUE_RISK" nor "AVAILABLE" returns the WATCH result and dispatches
   nothing; it is not refused. *)
C10_UnknownStatusFallsToWatch ==
    (EDP /\ FloatGT(latency_ms, Threshold)
         /\ human_status \notin {"FATIGUE_RISK", "AVAILABLE"})
        => /\ protocol = "WATCH"
           /\ ret = <<MSG_WATCH>>
           /\ dispatched = <<>>
           /\ ~raised

C10_Witness ==
    /\ EDP /\ latency_ms = Finite((8452 * UnitsPerMs) \div 10)
    /\ human_status = "fatigue_risk" /\ ret = <<MSG_WATCH>>

====
